---- MODULE Spec2Model ----
(***************************************************************************)
(* Model of nidaqmx/libnidaqmx.py, the ctypes binding to the NI-DAQmx     *)
(* driver.  The state machines of the module:                              *)
(*   Spec        - module loading, one Task object and the driver calls    *)
(*                 its methods issue (CHK / CALL return-code handling);    *)
(*   SpecPattern - the pure function make_pattern applied to bounded       *)
(*                 lists of channel paths;                                 *)
(*   SpecRead    - AnalogInputTask.read, DigitalInputTask.create_channel   *)
(*                 and DigitalInputTask.read on a constructed task;        *)
(*   SpecEvents  - register_every_n_samples_event and register_done_event, *)
(*                 step by step, against the callbacks the driver holds;   *)
(*   SpecTiming  - configure_timing_* and set_arm_start_trigger against    *)
(*                 the timing the driver accepted.                         *)
(* Python values are records [t, v]: t is the Python type, v an integer    *)
(* (True = 1, False = 0, None = 0).  Strings that the code takes apart     *)
(* are sequences of one-character strings.                                 *)
(***************************************************************************)
EXTENDS Integers, Sequences, FiniteSets, TLC

VARIABLES
  module,       \* "unloaded" | "loaded" | "failed": state of the import
  env,          \* what the import finds on the machine
  files,        \* files written by the binding
  stdoutLines,  \* number of lines printed on stdout
  stderrLines,  \* number of lines written to sys.stderr
  phase,        \* Task object: "none" | "live" | "failed" (ctor raised)
  value,        \* Task.value, the uInt32 task handle
  pauseType,    \* Task._pause_trigger_type
  drvTasks,     \* handles the driver currently holds
  clearCount,   \* DAQmxClearTask calls issued, per handle
  last,         \* the last operation: its driver calls and its outcome
  nOps,         \* operations performed
  paths,        \* make_pattern: the argument
  result,       \* make_pattern: the outcome
  cls,          \* the class of the Task object
  sample_mode,  \* Task.sample_mode
  samples_per_channel,        \* Task.samples_per_channel
  one_channel_for_all_lines,  \* DigitalInputTask.one_channel_for_all_lines
  register_event_cache,       \* Task._register_*_event_cache, per event
  drvCallback,  \* the callback pointer the driver holds, per event
  drvTiming,    \* the sample timing the driver last accepted
  reg,          \* the activation of a register_*_event call
  rd            \* what the last read allocated, passed and returned

objVars == <<cls, sample_mode, samples_per_channel, one_channel_for_all_lines,
             register_event_cache, drvCallback, drvTiming, reg, rd>>

vars == <<module, env, files, stdoutLines, stderrLines, phase, value,
          pauseType, drvTasks, clearCount, last, nOps, paths, result,
          objVars>>

bindingVars == <<module, env, files, stdoutLines, stderrLines, phase, value,
                 pauseType, drvTasks, clearCount, last, nOps, objVars>>

patternVars == <<paths, result>>

----------------------------------------------------------------------------
(* Bounds *)

MaxOps == 4
MaxCode == 2
MaxHandle == 2

Codes == (0 - MaxCode)..MaxCode
Handles == 1..MaxHandle

\* codes that NIDAQmx.h #defines as DAQmxError... / DAQmxWarning...
ErrorMapCodes == {c \in Codes : c = 1 \/ c = 0 - 1}

\* return values of DAQmxGetErrorString
ErrStrCodes == {0 - 1, 0}

----------------------------------------------------------------------------
(* Python values *)

PyNone == [t |-> "NoneType", v |-> 0]
PyInt(n) == [t |-> "int", v |-> n]
PyBool(b) == [t |-> "bool", v |-> IF b THEN 1 ELSE 0]
PyTrue == PyBool(TRUE)
PyFalse == PyBool(FALSE)

Returned(val) == [kind |-> "return", val |-> val, exc |-> "none"]
Raised(exc) == [kind |-> "raise", val |-> PyNone, exc |-> exc]

----------------------------------------------------------------------------
(* CHK and CALL *)

\* CHK that treats a warning as an error
CHK_RaiseOnWarning(return_code, r) ==
  IF return_code = 0
  THEN [kind |-> "return", exc |-> "none", val |-> return_code, warn |-> 0]
  ELSE [kind |-> "raise", exc |-> "RuntimeError", val |-> return_code,
        warn |-> 0]

\* CHK(return_code, funcname); r is what DAQmxGetErrorString returned
CHK(return_code, r) ==
  IF return_code = 0
  THEN [kind |-> "return", exc |-> "none", val |-> return_code, warn |-> 0]
  ELSE IF r # 0
       THEN IF return_code < 0
            THEN IF return_code \in ErrorMapCodes
                 THEN [kind |-> "raise", exc |-> "RuntimeError",
                       val |-> return_code, warn |-> 0]
                 ELSE [kind |-> "raise", exc |-> "KeyError",
                       val |-> return_code, warn |-> 0]
            ELSE [kind |-> "return", exc |-> "none",
                  val |-> return_code, warn |-> 1]
       ELSE IF return_code < 0
            THEN [kind |-> "raise", exc |-> "RuntimeError",
                  val |-> return_code, warn |-> 0]
            ELSE [kind |-> "return", exc |-> "none",
                  val |-> return_code, warn |-> 1]

\* CALL(name, *args): the driver function returned code (and wrote out to
\* its output argument); nUnicode of the arguments were unicode objects
CALL(fn, code, r, out, nUnicode) ==
  LET c == CHK(code, r)
  IN [fn |-> fn, via |-> "CALL", code |-> code, out |-> out,
      kind |-> c.kind, exc |-> c.exc, val |-> c.val, warn |-> c.warn,
      printed |-> nUnicode]

\* a driver function called straight on libnidaqmx, its code unchecked
DirectCall(fn, code, printed) ==
  [fn |-> fn, via |-> "direct", code |-> code, out |-> 0,
   kind |-> "return", exc |-> "none", val |-> code, warn |-> 0,
   printed |-> printed]

\* `return CALL(...) >= 0`
ReturnCallGeZero(c) ==
  IF c.kind = "raise" THEN Raised(c.exc) ELSE Returned(PyBool(c.val >= 0))

\* `return CALL(...) == 0`
ReturnCallEqZero(c) ==
  IF c.kind = "raise" THEN Raised(c.exc) ELSE Returned(PyBool(c.val = 0))

\* `return CALL(...)`
ReturnCall(c) ==
  IF c.kind = "raise" THEN Raised(c.exc) ELSE Returned(PyInt(c.val))

\* Task._get_map_value(label, map, key): TRUE when map.get(key) is not None
GetMapValueOk(keys, key) == key \in keys

RECURSIVE SumWarn(_)
SumWarn(cs) == IF cs = <<>> THEN 0 ELSE Head(cs).warn + SumWarn(Tail(cs))

RECURSIVE SumPrinted(_)
SumPrinted(cs) ==
  IF cs = <<>> THEN 0 ELSE Head(cs).printed + SumPrinted(Tail(cs))

\* bookkeeping common to every operation: what it called, what it printed
\* itself and how it ended
Finish(op, arg, calls, printed, outcome) ==
  /\ last' = [op |-> op, arg |-> arg, calls |-> calls, kind |-> outcome.kind,
              val |-> outcome.val, exc |-> outcome.exc]
  /\ stderrLines' = stderrLines + SumWarn(calls)
  /\ stdoutLines' = stdoutLines + SumPrinted(calls) + printed
  /\ nOps' = nOps + 1

----------------------------------------------------------------------------
(* Module import *)

GenFile == "nidaqmx_h_VERSION.py"

\* an import that regenerates the constants module every time
GeneratedFilesAlways(e) == {GenFile}

\* the files the import writes: the generated constants module, when it
\* could not be imported
GeneratedFiles(e) == IF e.hdr THEN {} ELSE {GenFile}

\* get_nidaqmx_version(): two unchecked driver calls
GetNidaqmxVersionCalls ==
  <<DirectCall("DAQmxGetSysNIDAQMajorVersion", 0, 0),
    DirectCall("DAQmxGetSysNIDAQMinorVersion", 0, 0)>>

LoadModule ==
  /\ module = "unloaded"
  /\ nOps < MaxOps
  /\ IF ~env.lib
     THEN /\ module' = "failed"
          /\ files' = files
          /\ Finish("import", "", <<>>, 0, Raised("ImportError"))
     ELSE IF env.hdr
          THEN /\ module' = "loaded"
               /\ files' = files \cup GeneratedFiles(env)
               /\ Finish("import", "", GetNidaqmxVersionCalls, 0,
                         Returned(PyNone))
          ELSE IF ~env.inc
               THEN /\ module' = "failed"
                    /\ files' = files
                    /\ Finish("import", "", GetNidaqmxVersionCalls, 0,
                              Raised("AssertionError"))
               ELSE \E unknown \in 0..1 :
                      /\ module' = "loaded"
                      /\ files' = files \cup GeneratedFiles(env)
                      /\ Finish("import", "", GetNidaqmxVersionCalls,
                                unknown + 1, Returned(PyNone))
  /\ UNCHANGED <<env, phase, value, pauseType, drvTasks, clearCount>>
  /\ UNCHANGED patternVars
  /\ UNCHANGED objVars

----------------------------------------------------------------------------
(* Task: construction and destruction *)

\* what a successful DAQmxCreateTask writes through byref(self): a handle the
\* driver does not hold yet
FreeHandles == Handles \ drvTasks

\* Task.__init__(name)
TaskInit ==
  /\ module = "loaded"
  /\ phase = "none"
  /\ nOps < MaxOps
  /\ \E c1 \in Codes, r1 \in ErrStrCodes, h \in Handles :
       /\ c1 >= 0 => h \in FreeHandles
       /\ LET out1 == IF c1 >= 0 THEN h ELSE 0
              create == CALL("DAQmxCreateTask", c1, r1, out1, 0)
          IN IF create.kind = "raise"
             THEN /\ phase' = "failed"
                  /\ value' = out1
                  /\ drvTasks' = drvTasks
                  /\ Finish("__init__", "", <<create>>, 0, Raised(create.exc))
             ELSE \E c2 \in Codes, r2 \in ErrStrCodes :
                    LET getname == CALL("DAQmxGetTaskName", c2, r2, 0, 0)
                    IN /\ value' = out1
                       /\ drvTasks' = drvTasks \cup {out1}
                       /\ IF getname.kind = "raise"
                          THEN /\ phase' = "failed"
                               /\ Finish("__init__", "", <<create, getname>>,
                                         0, Raised(getname.exc))
                          ELSE /\ phase' = "live"
                               /\ Finish("__init__", "", <<create, getname>>,
                                         0, Returned(PyNone))
  /\ pauseType' = "None"
  /\ sample_mode' = "None"
  /\ UNCHANGED <<module, env, files, clearCount>>
  /\ UNCHANGED patternVars
  /\ UNCHANGED <<cls, samples_per_channel, one_channel_for_all_lines,
                 register_event_cache, drvCallback, drvTiming, reg, rd>>

\* a __del__ that does not test self.value
DelCallsUnguarded(v, code) == <<DirectCall("DAQmxClearTask", code, 0)>>

\* the driver calls Task.__del__ issues for a task whose handle is v, when
\* DAQmxClearTask returns code
DelCalls(v, code) ==
  IF v # 0 THEN <<DirectCall("DAQmxClearTask", code, 0)>> ELSE <<>>

\* Task.__del__()
TaskDel ==
  /\ phase \in {"live", "failed"}
  /\ nOps < MaxOps
  /\ \E code \in Codes :
       LET calls == DelCalls(value, code)
       IN /\ value = 0 => code = 0
          /\ Finish("__del__", phase, calls,
                    IF calls # <<>> /\ code # 0 THEN 1 ELSE 0,
                    Returned(PyNone))
          /\ clearCount' = IF calls # <<>>
                           THEN [clearCount EXCEPT ![value] = @ + 1]
                           ELSE clearCount
          /\ drvTasks' = IF calls # <<>> /\ code >= 0
                         THEN drvTasks \ {value}
                         ELSE drvTasks
  /\ phase' = "none"
  /\ value' = 0
  /\ pauseType' = "None"
  /\ UNCHANGED <<module, env, files>>
  /\ UNCHANGED patternVars
  /\ UNCHANGED objVars

----------------------------------------------------------------------------
(* Task: methods that forward one call to the driver *)

Bogus == "bogus"

state_map == {"start", "stop", "verify", "commit", "reserve", "unreserve",
              "abort"}
slope_map == {"rising", "falling"}
edge_map == {"rising", "falling"}
pattern_when_map == {"matches", "does_not_match"}
trigger_type_map == {"digital_level", "analog_level", "analog_window", "None"}
routine_map == {"digital_level", "analog_level", "analog_window"}
type_when_map == [digital_level |-> {"high", "low"},
                  analog_level |-> {"above", "below"},
                  analog_window |-> {"inside", "outside"}]
all_when == {"high", "low", "above", "below", "inside", "outside"}

taskFrame == <<module, env, files, phase, value, drvTasks, clearCount>>

CanCallMethod == module = "loaded" /\ phase = "live" /\ nOps < MaxOps

\* a method that ends in one call through CALL: `return CALL(...)==0` when
\* eqZero, `return CALL(...)` otherwise
Forward(op, arg, fn, eqZero, maxUnicode) ==
  \E code \in Codes, r \in ErrStrCodes, u \in 0..maxUnicode :
    LET c == CALL(fn, code, r, 0, u)
    IN Finish(op, arg, <<c>>, 0,
              IF eqZero THEN ReturnCallEqZero(c) ELSE ReturnCall(c))

\* the method raised before it reached the driver
RaiseEarly(op, arg, exc) == Finish(op, arg, <<>>, 0, Raised(exc))

\* b != 0 where b is a ctypes bool32 object holding flag: a ctypes object
\* defines no comparison with a Python int, the two are never equal
CtypesNeInt(flag, n) == TRUE

\* Task.is_done()
IsDone ==
  /\ CanCallMethod
  /\ \E code \in Codes, r \in ErrStrCodes, flag \in 0..1 :
       LET c == CALL("DAQmxIsTaskDone", code, r, flag, 0)
       IN Finish("is_done", "", <<c>>, 0,
                 IF c.kind = "raise" THEN Raised(c.exc)
                 ELSE IF c.val = 0 THEN Returned(PyBool(CtypesNeInt(flag, 0)))
                 ELSE Returned(PyNone))
  /\ UNCHANGED <<taskFrame, pauseType>>
  /\ UNCHANGED patternVars
  /\ UNCHANGED objVars

\* Task.start()
Start ==
  /\ CanCallMethod
  /\ Forward("start", "", "DAQmxStartTask", TRUE, 0)
  /\ UNCHANGED <<taskFrame, pauseType>>
  /\ UNCHANGED patternVars
  /\ UNCHANGED objVars

\* Task.stop()
Stop ==
  /\ CanCallMethod
  /\ Forward("stop", "", "DAQmxStopTask", TRUE, 0)
  /\ UNCHANGED <<taskFrame, pauseType>>
  /\ UNCHANGED patternVars
  /\ UNCHANGED objVars

\* Task.alter_state(state)
AlterState ==
  /\ CanCallMethod
  /\ \E state \in state_map \cup {Bogus} :
       IF GetMapValueOk(state_map, state)
       THEN Forward("alter_state", state, "DAQmxTaskControl",
                    TRUE, 0)
       ELSE RaiseEarly("alter_state", state, "ValueError")
  /\ UNCHANGED <<taskFrame, pauseType>>
  /\ UNCHANGED patternVars
  /\ UNCHANGED objVars

\* Task.configure_trigger_analog_edge_start(source, slope, level)
ConfigureTriggerAnalogEdgeStart ==
  /\ CanCallMethod
  /\ \E slope \in slope_map \cup {Bogus} :
       IF GetMapValueOk(slope_map, slope)
       THEN Forward("configure_trigger_analog_edge_start", slope,
                    "DAQmxCfgAnlgEdgeStartTrig", TRUE, 1)
       ELSE RaiseEarly("configure_trigger_analog_edge_start", slope,
                       "ValueError")
  /\ UNCHANGED <<taskFrame, pauseType>>
  /\ UNCHANGED patternVars
  /\ UNCHANGED objVars

\* Task.configure_trigger_digital_edge_start(source, edge)
ConfigureTriggerDigitalEdgeStart ==
  /\ CanCallMethod
  /\ \E edge \in edge_map \cup {Bogus} :
       IF GetMapValueOk(edge_map, edge)
       THEN Forward("configure_trigger_digital_edge_start", edge,
                    "DAQmxCfgDigEdgeStartTrig", FALSE, 0)
       ELSE RaiseEarly("configure_trigger_digital_edge_start", edge,
                       "ValueError")
  /\ UNCHANGED <<taskFrame, pauseType>>
  /\ UNCHANGED patternVars
  /\ UNCHANGED objVars

\* Task.configure_trigger_digital_pattern_start(source, pattern, when)
ConfigureTriggerDigitalPatternStart ==
  /\ CanCallMethod
  /\ \E when \in pattern_when_map \cup {Bogus} :
       IF GetMapValueOk(pattern_when_map, when)
       THEN Forward("configure_trigger_digital_pattern_start", when,
                    "DAQmxCfgDigPatternStartTrig", FALSE, 0)
       ELSE RaiseEarly("configure_trigger_digital_pattern_start", when,
                       "ValueError")
  /\ UNCHANGED <<taskFrame, pauseType>>
  /\ UNCHANGED patternVars
  /\ UNCHANGED objVars

\* Task.configure_trigger_disable_start()
ConfigureTriggerDisableStart ==
  /\ CanCallMethod
  /\ Forward("configure_trigger_disable_start", "", "DAQmxDisableStartTrig",
             FALSE, 0)
  /\ UNCHANGED <<taskFrame, pauseType>>
  /\ UNCHANGED patternVars
  /\ UNCHANGED objVars

\* Task.set_arm_start_trigger_edge(edge)
SetArmStartTriggerEdge ==
  /\ CanCallMethod
  /\ \E edge \in edge_map \cup {Bogus} :
       IF GetMapValueOk(edge_map, edge)
       THEN Forward("set_arm_start_trigger_edge", edge,
                    "DAQmxSetDigEdgeArmStartTrigEdge", FALSE, 0)
       ELSE RaiseEarly("set_arm_start_trigger_edge", edge, "ValueError")
  /\ UNCHANGED <<taskFrame, pauseType>>
  /\ UNCHANGED patternVars
  /\ UNCHANGED objVars

\* Task.set_pause_trigger(trigger_type)
SetPauseTrigger ==
  /\ CanCallMethod
  /\ \E trigger_type \in trigger_type_map \cup {Bogus} :
       IF GetMapValueOk(trigger_type_map, trigger_type)
       THEN /\ pauseType' = trigger_type
            /\ Forward("set_pause_trigger", trigger_type,
                       "DAQmxSetPauseTrigType", TRUE, 0)
       ELSE /\ pauseType' = pauseType
            /\ RaiseEarly("set_pause_trigger", trigger_type, "ValueError")
  /\ UNCHANGED taskFrame
  /\ UNCHANGED patternVars
  /\ UNCHANGED objVars

\* the driver function set_pause_trigger_when picks for a trigger type
PauseTrigWhenRoutine(t) ==
  CASE t = "digital_level" -> "DAQmxSetDigLvlPauseTrigWhen"
    [] t = "analog_level" -> "DAQmxSetAnlgLvlPauseTrigWhen"
    [] t = "analog_window" -> "DAQmxSetAnlgWinPauseTrigWhen"

\* Task.set_pause_trigger_when(when)
SetPauseTriggerWhen ==
  /\ CanCallMethod
  /\ \E when \in all_when \cup {Bogus} :
       IF pauseType = "None"
       THEN RaiseEarly("set_pause_trigger_when", when, "TypeError")
       ELSE IF ~GetMapValueOk(routine_map, pauseType)
               \/ ~GetMapValueOk(DOMAIN type_when_map, pauseType)
               \/ ~GetMapValueOk(type_when_map[pauseType], when)
            THEN RaiseEarly("set_pause_trigger_when", when, "ValueError")
            ELSE Forward("set_pause_trigger_when", when,
                         PauseTrigWhenRoutine(pauseType), FALSE, 0)
  /\ UNCHANGED <<taskFrame, pauseType>>
  /\ UNCHANGED patternVars
  /\ UNCHANGED objVars

----------------------------------------------------------------------------
(* make_pattern: strings are sequences of one-character strings *)

Digits == <<"0", "1", "2", "3", "4", "5", "6", "7", "8", "9">>

\* word[i].isdigit()
IsDigit(c) == \E d \in 1..10 : Digits[d] = c

\* the value of a digit character
DigitVal(c) == (CHOOSE d \in 1..10 : Digits[d] = c) - 1

\* ord(c) for the characters of channel paths
Ord(c) ==
  CASE c = "," -> 44
    [] c = "/" -> 47
    [] IsDigit(c) -> 48 + DigitVal(c)
    [] c = ":" -> 58
    [] c = "D" -> 68
    [] c = "a" -> 97
    [] c = "e" -> 101
    [] c = "i" -> 105
    [] c = "l" -> 108
    [] c = "n" -> 110
    [] c = "o" -> 111
    [] c = "p" -> 112
    [] c = "r" -> 114
    [] c = "t" -> 116
    [] c = "v" -> 118
    [] c = "{" -> 123
    [] c = "}" -> 125

\* a < b for Python str: lexicographic on character codes
RECURSIVE StrLess(_, _)
StrLess(a, b) ==
  IF b = <<>> THEN FALSE
  ELSE IF a = <<>> THEN TRUE
  ELSE IF Ord(Head(a)) # Ord(Head(b)) THEN Ord(Head(a)) < Ord(Head(b))
  ELSE StrLess(Tail(a), Tail(b))

\* sorted(S) for a set of strings
RECURSIVE SortedStrs(_)
SortedStrs(S) ==
  IF S = {} THEN <<>>
  ELSE LET m == CHOOSE x \in S : \A y \in S \ {x} : StrLess(x, y)
       IN <<m>> \o SortedStrs(S \ {m})

\* str(n) / '%s' % n for a non-negative int
RECURSIVE Str(_)
Str(n) == IF n < 10 THEN <<Digits[n + 1]>>
          ELSE Str(n \div 10) \o <<Digits[(n % 10) + 1]>>

\* int(s) raises ValueError unless s is a non-empty digit string
IntOk(s) == s # <<>> /\ \A k \in 1..Len(s) : IsDigit(s[k])

RECURSIVE IntOf(_)
IntOf(s) == IF s = <<>> THEN 0
            ELSE 10 * IntOf(SubSeq(s, 1, Len(s) - 1)) + DigitVal(s[Len(s)])

\* a sort that was left out: the list in the order it came
UnsortedInts(l) == l

\* sorted(l) for a list of ints
RECURSIVE InsertInt(_, _)
InsertInt(n, l) ==
  IF l = <<>> THEN <<n>>
  ELSE IF n <= Head(l) THEN <<n>> \o l
  ELSE <<Head(l)>> \o InsertInt(n, Tail(l))

RECURSIVE SortedInts(_)
SortedInts(l) ==
  IF l = <<>> THEN <<>> ELSE InsertInt(Head(l), SortedInts(Tail(l)))

\* range(a, b)
Range(a, b) == [k \in 1..(IF b > a THEN b - a ELSE 0) |-> a + k - 1]

\* sep.join(l)
RECURSIVE Join(_, _)
Join(l, sep) ==
  IF l = <<>> THEN <<>>
  ELSE IF Len(l) = 1 THEN l[1]
  ELSE l[1] \o sep \o Join(Tail(l), sep)

\* c in s
Contains(s, c) == \E k \in 1..Len(s) : s[k] = c

\* path.rsplit('/', 1): the split at the last '/'
Split1Last(path) ==
  IF Contains(path, "/")
  THEN LET k == CHOOSE j \in 1..Len(path) :
                  path[j] = "/" /\ \A m \in (j + 1)..Len(path) : path[m] # "/"
       IN <<SubSeq(path, 1, k - 1), SubSeq(path, k + 1, Len(path))>>
  ELSE <<path>>

\* path.split('/', 1)
Split1(path) ==
  IF Contains(path, "/")
  THEN LET k == CHOOSE j \in 1..Len(path) :
                  path[j] = "/" /\ \A m \in 1..(j - 1) : path[m] # "/"
       IN <<SubSeq(path, 1, k - 1), SubSeq(path, k + 1, Len(path))>>
  ELSE <<path>>

\* the while loop of lines 231-235: index (from 0) of the first digit of word
FirstDigit(word) ==
  IF \E k \in 1..Len(word) : IsDigit(word[k])
  THEN (CHOOSE k \in 1..Len(word) :
          IsDigit(word[k]) /\ \A m \in 1..(k - 1) : ~IsDigit(word[m])) - 1
  ELSE Len(word)

\* one iteration of `for path in paths`; st = [patterns, flag, err]
CollectStep(st, path) ==
  LET sp == Split1(path)
      bad == Len(sp) = 1 /\ DOMAIN st.patterns # {} /\ ~st.flag
      i == FirstDigit(path)
      splitted == IF Len(sp) = 1
                  THEN <<SubSeq(path, 1, i), SubSeq(path, i + 1, Len(path))>>
                  ELSE sp
      key == splitted[1]
      old == IF key \in DOMAIN st.patterns THEN st.patterns[key] ELSE {}
  IN IF st.err # "none" THEN st
     ELSE IF bad THEN [st EXCEPT !.err = "AssertionError"]
     ELSE [patterns |-> [k \in DOMAIN st.patterns \cup {key} |->
                           IF k = key THEN old \cup {splitted[2]}
                           ELSE st.patterns[k]],
           flag |-> st.flag \/ Len(sp) = 1,
           err |-> "none"]

\* the first loop of make_pattern
RECURSIVE Collect(_, _)
Collect(st, ps) ==
  IF ps = <<>> THEN st ELSE Collect(CollectStep(st, Head(ps)), Tail(ps))

\* list(S): a Python set is iterated in an order the code does not control;
\* make_pattern reads the order of its argument only through the assert of
\* line 228, which depends on which element comes first
ListsOfSet(S) == {<<f>> \o SortedStrs(S \ {f}) : f \in S}

MpReturn(s) == [kind |-> "return", val |-> s]
MpRaise(e) == [kind |-> "raise", val |-> <<e>>]

\* prefix + lst[0]  or  prefix + '/' + lst[0]
Glue(flag, prefix, rest) ==
  IF flag THEN prefix \o rest ELSE prefix \o <<"/">> \o rest

\* a subpattern that is never wrapped
BraceNever(subpattern) == subpattern

\* '{%s}' % subpattern when it holds a comma
Brace(subpattern) ==
  IF Contains(subpattern, ",") THEN <<"{">> \o subpattern \o <<"}">>
  ELSE subpattern

\* a range that is emitted without the test that the numbers are a run
NumberRangeNoAssert(S) ==
  IF \E x \in S : ~IntOk(x) THEN MpRaise("ValueError")
  ELSE LET slst == SortedInts([k \in 1..Cardinality(S) |->
                                 IntOf(SortedStrs(S)[k])])
       IN IF Len(slst) = 1 THEN MpReturn(Str(slst[1]))
          ELSE MpReturn(Str(slst[1]) \o <<":">> \o Str(slst[Len(slst)]))

\* lines 260-265: the numbers collected under the empty prefix
NumberRange(S) ==
  IF \E x \in S : ~IntOk(x) THEN MpRaise("ValueError")
  ELSE LET slst == SortedInts([k \in 1..Cardinality(S) |->
                                 IntOf(SortedStrs(S)[k])])
       IN IF slst # Range(slst[1], slst[Len(slst)] + 1)
          THEN MpRaise("AssertionError")
          ELSE IF Len(slst) = 1 THEN MpReturn(Str(slst[1]))
          ELSE MpReturn(Str(slst[1]) \o <<":">> \o Str(slst[Len(slst)]))

\* make_pattern(paths): the set of outcomes it can have
RECURSIVE make_pattern(_)
RECURSIVE EmitFrom(_, _, _)

\* what the body of `for prefix in sorted(patterns.keys())` appends to r
Piece(st, prefix) ==
  LET S == st.patterns[prefix]
  IN IF Cardinality(S) = 1
     THEN {MpReturn(Glue(st.flag, prefix, CHOOSE x \in S : TRUE))}
     ELSE IF prefix # <<>>
          THEN {IF o.kind = "raise" THEN o
                ELSE MpReturn(Glue(st.flag, prefix, Brace(o.val))) :
                  o \in UNION {make_pattern(l) : l \in ListsOfSet(S)}}
          ELSE {NumberRange(S)}

\* the second loop, from the k-th sorted prefix on, r being what was appended
EmitFrom(st, k, r) ==
  LET keys == SortedStrs(DOMAIN st.patterns)
  IN IF k > Len(keys) THEN {MpReturn(Join(r, <<",">>))}
     ELSE UNION {IF o.kind = "raise" THEN {o}
                 ELSE EmitFrom(st, k + 1, Append(r, o.val)) :
                   o \in Piece(st, keys[k])}

make_pattern(ps) ==
  LET st == Collect([patterns |-> <<>>, flag |-> FALSE, err |-> "none"], ps)
  IN IF st.err # "none" THEN {MpRaise(st.err)} ELSE EmitFrom(st, 1, <<>>)

----------------------------------------------------------------------------
(* make_pattern applied to bounded lists of channel paths *)

MaxPaths == 3
MaxChan == 3

DevStr == <<"D", "e", "v">>
ao == <<"a", "o">>
ai == <<"a", "i">>
port == <<"p", "o", "r", "t">>
line == <<"l", "i", "n", "e">>

\* 'Dev<d>/<p><n>'
Chan(d, p, n) == DevStr \o Str(d) \o <<"/">> \o p \o Str(n)

\* 'Dev<d>/port<pn>/line<ln>'
Line(d, pn, ln) ==
  DevStr \o Str(d) \o <<"/">> \o port \o Str(pn) \o <<"/">> \o line \o Str(ln)

\* channel numbers: a run from 1, and 9, 10 whose order as strings differs
\* from their order as numbers
ChanNumbers == (1..MaxChan) \cup {9, 10}

\* the names the lists are drawn from: what Device.get_*_channels() and
\* get_*_lines() return, a channel next to the lines of Dev2, and names
\* without a '/', without a number or with a leading zero
PathPool ==
  {Chan(1, ao, n) : n \in ChanNumbers}
    \cup {Chan(1, ai, n) : n \in 1..2}
    \cup {Chan(0, ao, n) : n \in 0..1}
    \cup {Line(2, pn, ln) : pn \in 0..1, ln \in 0..1}
    \cup {Chan(2, ao, 1)}
    \cup {DevStr \o Str(1),
          DevStr \o Str(1) \o <<"/">> \o ao,
          DevStr \o Str(1) \o <<"/">> \o ao \o <<"0", "1">>}

NoResult == [kind |-> "none", val |-> <<>>]

\* the caller builds the list
AddPath ==
  /\ result = NoResult
  /\ Len(paths) < MaxPaths
  /\ \E p \in PathPool : paths' = Append(paths, p)
  /\ UNCHANGED result
  /\ UNCHANGED bindingVars

\* make_pattern(paths)
CallMakePattern ==
  /\ result = NoResult
  /\ \E o \in make_pattern(paths) : result' = o
  /\ UNCHANGED paths
  /\ UNCHANGED bindingVars

----------------------------------------------------------------------------
(* The Task object beyond its handle, and the task classes *)

\* an attribute the object does not have (yet)
Absent == [t |-> "absent", v |-> 0]

\* the class attribute channel_type
ChannelType(c) ==
  CASE c = "AnalogInputTask" -> "AI"
    [] c = "DigitalInputTask" -> "DI"
    [] OTHER -> "None"

Events == {"every_n_samples", "done"}

\* no callback, for each event: the class attributes
\* _register_every_n_samples_event_cache and _register_done_event_cache
NoCallbacks == [e \in Events |-> 0]

\* the driver has accepted no sample timing for the task
NoTiming == [mode |-> "None", spc |-> Absent]

\* no register_*_event call has run
NoReg == [at |-> "none", event |-> "", func |-> 0, had |-> 0, c_func |-> 0,
          nested |-> FALSE, calls |-> <<>>]

\* no read has run
NoRead == [arg |-> PyNone, fill_mode |-> "", spc |-> 0, nchan |-> 0, c |-> 0,
           allocated |-> FALSE, capacity |-> 0, reached |-> FALSE,
           passed |-> 0, got |-> 0, rows |-> 0]

\* a Task of class c right after its construction succeeded
LiveTask(c) ==
  /\ module = "loaded"
  /\ env = [lib |-> TRUE, hdr |-> TRUE, inc |-> TRUE]
  /\ files = {}
  /\ stdoutLines = 0
  /\ stderrLines = 0
  /\ phase = "live"
  /\ value = 1
  /\ pauseType = "None"
  /\ drvTasks = {value}
  /\ clearCount = [h \in 0..MaxHandle |-> 0]
  /\ last = [op |-> "__init__", arg |-> "", calls |-> <<>>, kind |-> "return",
             val |-> PyNone, exc |-> "none"]
  /\ nOps = 0
  /\ paths = <<>>
  /\ result = NoResult
  /\ cls = c
  /\ sample_mode = "None"
  /\ samples_per_channel = Absent
  /\ one_channel_for_all_lines = Absent
  /\ register_event_cache = NoCallbacks
  /\ drvCallback = NoCallbacks
  /\ drvTiming = NoTiming
  /\ reg = NoReg
  /\ rd = NoRead

----------------------------------------------------------------------------
(* AnalogInputTask.read and DigitalInputTask.read *)

MaxReadOps == 2
MaxSamples == 1
MaxReadChans == 2
MaxLines == 3

\* a read or create_channel call can be made
CanRead == module = "loaded" /\ phase = "live" /\ nOps < MaxReadOps

fill_mode_map == {"group_by_channel", "group_by_scan_number"}
grouping_map == {"per_line", "for_all_lines"}

\* the samples_per_channel arguments a read is called with
SamplesArgs == {PyNone} \cup {PyInt(n) : n \in (0 - 1)..MaxSamples}

\* return codes of the read call itself: an error, success, a warning
ReadCodes == {c \in Codes : c \in (0 - 1)..1}

\* a get_* helper: CALL(fn, self, byref(d)) that fails or writes out to d
GetterCall(fn, ok, out) ==
  CALL(fn, IF ok THEN 0 ELSE 0 - 1, 0, IF ok THEN out ELSE 0, 0)

\* the arguments AnalogInputTask.read replaces by the samples available
AnalogReplaced == {PyNone}

\* the arguments DigitalInputTask.read replaces by the samples available
DigitalReplaced == {PyNone, PyInt(0 - 1)}

\* samples_per_channel after `samples_per_channel =
\* self.get_samples_per_channel_available()` for the replaced arguments
ResolveSamples(arg, replaced) ==
  IF arg \in replaced
  THEN {[calls |-> <<GetterCall("DAQmxGetReadAvailSampPerChan", ok, avail)>>,
         ok |-> ok, spc |-> IF ok THEN avail ELSE 0] :
          ok \in BOOLEAN, avail \in 0..MaxSamples}
  ELSE {[calls |-> <<>>, ok |-> TRUE, spc |-> arg.v]}

\* len(a[:k]) for an axis of length n, k >= 0
SliceLen(n, k) == IF k < n THEN k ELSE n

\* the length of the sample axis of what AnalogInputTask.read returns
AnalogRows(spc, got) == IF spc < got THEN SliceLen(spc, got) ELSE spc

\* the length of the sample axis of what DigitalInputTask.read returns
DigitalRows(spc, got) == IF got < spc THEN SliceLen(spc, got) ELSE spc

\* the numpy unsigned integer types: np.uint8 ... np.uint64
NpUintBits == {8, 16, 32, 64}

\* a dtype of one byte whatever the number of lines
ReadDtypeBitsU8(c) == 8

\* the bits of the dtype DigitalInputTask.read picks for c lines:
\* getattr(np, 'uint%s' % (8 * c))
ReadDtypeBits(c) == 8 * c

\* ctypes uInt32(n).value, n modulo 2^32: n itself for the n >= 0 that fit
\* the checker's integers, n + 2^32 for a negative n
uInt32(n) == IF n >= 0 THEN n ELSE n + 2147483647 + 2147483647 + 2

MaxOf(S) == CHOOSE m \in S : \A x \in S : x <= m

\* the get_number_of_lines calls of a read of channels with these numbers of
\* lines; the failAt-th call fails (none when failAt = 0)
LineCalls(lines, failAt) ==
  [i \in 1..(IF failAt = 0 THEN Len(lines) ELSE failAt) |->
     GetterCall("DAQmxGetDINumLines", i # failAt, lines[i])]

\* a read ends: its calls, its outcome and what it did with the buffer
ReadEnds(op, calls, outcome, rec) ==
  /\ Finish(op, rec.fill_mode, calls, 0, outcome)
  /\ rd' = rec

readFrame == <<cls, sample_mode, samples_per_channel, register_event_cache,
               drvCallback, drvTiming, reg>>

\* AnalogInputTask.read(samples_per_channel, timeout, fill_mode)
AnalogRead ==
  /\ CanRead
  /\ cls = "AnalogInputTask"
  /\ \E arg \in SamplesArgs, fill_mode \in fill_mode_map \cup {Bogus} :
       LET op == "AnalogInputTask.read"
           r0 == [NoRead EXCEPT !.arg = arg, !.fill_mode = fill_mode]
       IN IF ~GetMapValueOk(fill_mode_map, fill_mode)
          THEN ReadEnds(op, <<>>, Raised("ValueError"), r0)
          ELSE \E a \in ResolveSamples(arg, AnalogReplaced) :
            IF ~a.ok
            THEN ReadEnds(op, a.calls, Raised(a.calls[1].exc), r0)
            ELSE \E nOk \in BOOLEAN, n \in 0..MaxReadChans :
              LET nc == GetterCall("DAQmxGetTaskNumChans", nOk, n)
                  r1 == [r0 EXCEPT !.spc = a.spc, !.nchan = nc.out]
              IN IF ~nOk
                 THEN n = 0 /\ ReadEnds(op, a.calls \o <<nc>>,
                                        Raised(nc.exc), r1)
                 ELSE IF a.spc < 0
                      THEN \* np.zeros: negative dimensions are not allowed
                           ReadEnds(op, a.calls \o <<nc>>,
                                    Raised("ValueError"), r1)
                      ELSE \E code \in ReadCodes, r \in ErrStrCodes,
                              got \in 0..a.spc :
                        LET size == a.spc * n
                            c == CALL("DAQmxReadAnalogF64", code, r, got, 0)
                            r2 == [r1 EXCEPT !.c = 1, !.allocated = TRUE,
                                             !.capacity = size,
                                             !.reached = TRUE,
                                             !.passed = size, !.got = got]
                        IN /\ code < 0 => got = 0
                           /\ IF c.kind = "raise"
                              THEN ReadEnds(op, a.calls \o <<nc, c>>,
                                            Raised(c.exc), r2)
                              ELSE LET rows == AnalogRows(a.spc, got)
                                   IN ReadEnds(op, a.calls \o <<nc, c>>,
                                        Returned([t |-> "ndarray",
                                                  v |-> rows]),
                                        [r2 EXCEPT !.rows = rows])
  /\ UNCHANGED <<taskFrame, pauseType, one_channel_for_all_lines>>
  /\ UNCHANGED readFrame
  /\ UNCHANGED patternVars

\* DigitalInputTask.create_channel(lines, name, grouping)
DigitalCreateChannel ==
  /\ CanRead
  /\ cls = "DigitalInputTask"
  /\ \E grouping \in grouping_map \cup {Bogus} :
       IF GetMapValueOk(grouping_map, grouping)
       THEN /\ one_channel_for_all_lines' = PyBool(grouping = "for_all_lines")
            /\ Forward("DigitalInputTask.create_channel", grouping,
                       "DAQmxCreateDIChan", TRUE, 1)
       ELSE /\ one_channel_for_all_lines' = one_channel_for_all_lines
            /\ RaiseEarly("DigitalInputTask.create_channel", grouping,
                          "ValueError")
  /\ UNCHANGED <<taskFrame, pauseType, rd>>
  /\ UNCHANGED readFrame
  /\ UNCHANGED patternVars

\* the tail of DigitalInputTask.read once c is known: count the channels,
\* allocate, read, slice
DigitalReadTail(op, r0, calls, spc, n, c, bits) ==
  \E nOk \in BOOLEAN :
    LET nc == GetterCall("DAQmxGetTaskNumChans", nOk, n)
        r1 == [r0 EXCEPT !.spc = spc, !.nchan = nc.out, !.c = c]
    IN IF ~nOk
       THEN ReadEnds(op, calls \o <<nc>>, Raised(nc.exc), r1)
       ELSE \E code \in ReadCodes, r \in ErrStrCodes, got \in 0..spc :
         LET size == spc * n
             rc == CALL("DAQmxReadDigitalLines", code, r, got, 0)
             r2 == [r1 EXCEPT !.allocated = TRUE,
                              !.capacity = size * (bits \div 8),
                              !.reached = TRUE,
                              !.passed = uInt32(size * c), !.got = got]
         IN /\ code < 0 => got = 0
            /\ IF rc.kind = "raise"
               THEN ReadEnds(op, calls \o <<nc, rc>>, Raised(rc.exc), r2)
               ELSE LET rows == DigitalRows(spc, got)
                    IN ReadEnds(op, calls \o <<nc, rc>>,
                                Returned([t |-> "tuple", v |-> rows]),
                                [r2 EXCEPT !.rows = rows])

\* DigitalInputTask.read(samples_per_channel, timeout, fill_mode)
DigitalRead ==
  /\ CanRead
  /\ cls = "DigitalInputTask"
  /\ \E arg \in SamplesArgs, fill_mode \in fill_mode_map \cup {Bogus},
        n \in 0..MaxReadChans :
       LET op == "DigitalInputTask.read"
           r0 == [NoRead EXCEPT !.arg = arg, !.fill_mode = fill_mode]
       IN IF ~GetMapValueOk(fill_mode_map, fill_mode)
          THEN n = 0 /\ ReadEnds(op, <<>>, Raised("ValueError"), r0)
          ELSE \E a \in ResolveSamples(arg, DigitalReplaced) :
            IF ~a.ok
            THEN n = 0 /\ ReadEnds(op, a.calls, Raised(a.calls[1].exc), r0)
            ELSE IF one_channel_for_all_lines = Absent
            THEN n = 0 /\ ReadEnds(op, a.calls, Raised("AttributeError"),
                                   [r0 EXCEPT !.spc = a.spc])
            ELSE IF one_channel_for_all_lines = PyFalse
            THEN DigitalReadTail(op, r0, a.calls, a.spc, n, 1, 8)
            ELSE \* get_names_of_channels(), then the lines of each channel
              \E namesOk \in BOOLEAN, nOk \in BOOLEAN :
                LET names == GetterCall("DAQmxGetTaskChannels", namesOk, 0)
                    nc == GetterCall("DAQmxGetTaskNumChans", nOk, n)
                    r1 == [r0 EXCEPT !.spc = a.spc]
                IN IF ~namesOk
                   THEN n = 0 /\ nOk
                        /\ ReadEnds(op, a.calls \o <<names>>,
                                    Raised(names.exc), r1)
                   ELSE IF ~nOk
                   THEN n = 0
                        /\ ReadEnds(op, a.calls \o <<names, nc>>,
                                    Raised(nc.exc), r1)
                   ELSE \E lines \in [1..n -> 1..MaxLines], failAt \in 0..n :
                     LET lc == LineCalls(lines, failAt)
                         pre == a.calls \o <<names, nc>> \o lc
                     IN IF failAt # 0
                        THEN /\ \A i \in failAt..n : lines[i] = 1
                             /\ ReadEnds(op, pre, Raised(lc[failAt].exc), r1)
                        ELSE IF n = 0
                        THEN \* max([])
                             ReadEnds(op, pre, Raised("ValueError"), r1)
                        ELSE LET c == MaxOf({lines[i] : i \in 1..n})
                             IN IF ReadDtypeBits(c) \notin NpUintBits
                                THEN ReadEnds(op, pre,
                                       Raised("AttributeError"),
                                       [r1 EXCEPT !.c = c])
                                ELSE DigitalReadTail(op, r0, pre, a.spc, n,
                                       c, ReadDtypeBits(c))
  /\ UNCHANGED <<taskFrame, pauseType, one_channel_for_all_lines>>
  /\ UNCHANGED readFrame
  /\ UNCHANGED patternVars

----------------------------------------------------------------------------
(* Task.register_every_n_samples_event and Task.register_done_event.  A    *)
(* call runs in steps that end right before each of its driver calls, so   *)
(* that the states in which the driver can fire an event are states of the *)
(* model.                                                                  *)

\* a register call can start
CanRegister == CanCallMethod /\ reg.at \in {"none", "done"}

\* CALL(fn, self, ..., c_func, cb_data): cb is the callback pointer passed,
\* 0 for NULL
CALLWithCallback(fn, code, r, cb) ==
  LET c == CHK(code, r)
  IN [fn |-> fn, via |-> "CALL", code |-> code, out |-> 0,
      kind |-> c.kind, exc |-> c.exc, val |-> c.val, warn |-> c.warn,
      printed |-> 0, cb |-> cb]

\* the ctypes callback object CFUNCTYPE(...)(func) creates: a new object for
\* every call
NewCFunc == nOps + 1

\* a register call that never unregisters the cached callback
NeedsUnregisterNever(cache) == FALSE

\* `if self._register_*_event_cache is not None`: the call first unregisters
NeedsUnregister(cache) == cache # 0

\* what the driver holds for an event after a registration call that passed
\* cb and returned code
DriverAfter(held, code, cb) == IF code >= 0 THEN cb ELSE held

RegArg(func) == IF func = 0 THEN "None" ELSE "func"

regFrame == <<cls, sample_mode, samples_per_channel,
              one_channel_for_all_lines, drvTiming, rd>>

\* the call returns or raises
RegisterEnds(op, calls, outcome) ==
  /\ Finish(op, RegArg(reg.func), calls, 0, outcome)
  /\ reg' = [reg EXCEPT !.at = "done", !.calls = calls]

\* the first step of register_<event>_event(func): up to its first driver
\* call.  needsIoType: the method reads self.channel_io_type first
RegisterBegin(op, ev, needsIoType) ==
  \E func \in 0..1 :
    LET r0 == [at |-> "call", event |-> ev, func |-> func,
               had |-> register_event_cache[ev], c_func |-> 0,
               nested |-> FALSE, calls |-> <<>>]
        raise(exc) ==
          /\ Finish(op, RegArg(func), <<>>, 0, Raised(exc))
          /\ reg' = [r0 EXCEPT !.at = "done"]
          /\ UNCHANGED register_event_cache
        goOn(rec, cached) ==
          /\ reg' = rec
          /\ register_event_cache' =
               [register_event_cache EXCEPT ![ev] = cached]
          /\ UNCHANGED <<last, nOps, stdoutLines, stderrLines>>
    IN IF needsIoType /\ ChannelType(cls) = "None"
       THEN raise("TypeError")
       ELSE IF func = 0
       THEN goOn(r0, 0)
       ELSE IF NeedsUnregister(register_event_cache[ev])
       THEN \* the nested call with func = None stores None in the cache
            goOn([r0 EXCEPT !.nested = TRUE], 0)
       ELSE IF ChannelType(cls) = "None"
       THEN raise("KeyError")
       ELSE goOn([r0 EXCEPT !.c_func = NewCFunc], NewCFunc)

\* the driver call a register call is waiting at, and what follows it up to
\* the next driver call or the return
RegisterCall(op, ev, fn) ==
  /\ module = "loaded"
  /\ phase = "live"
  /\ reg.at = "call"
  /\ reg.event = ev
  /\ \E code \in Codes, r \in ErrStrCodes :
       LET c == CALLWithCallback(fn, code, r, reg.c_func)
           calls == Append(reg.calls, c)
       IN /\ drvCallback' =
               [drvCallback EXCEPT ![ev] = DriverAfter(@, code, reg.c_func)]
          /\ IF c.kind = "raise"
             THEN /\ RegisterEnds(op, calls, Raised(c.exc))
                  /\ UNCHANGED register_event_cache
             ELSE IF reg.nested
             THEN \* back in the outer call: create c_func and cache it
                  /\ reg' = [reg EXCEPT !.nested = FALSE,
                                        !.c_func = NewCFunc,
                                        !.calls = calls]
                  /\ register_event_cache' =
                       [register_event_cache EXCEPT ![ev] = NewCFunc]
                  /\ UNCHANGED <<last, nOps, stdoutLines, stderrLines>>
             ELSE /\ RegisterEnds(op, calls, ReturnCallEqZero(c))
                  /\ UNCHANGED register_event_cache

\* Task.register_every_n_samples_event(func, ...): up to its first driver
\* call
RegisterEveryNSamplesEvent ==
  /\ CanRegister
  /\ RegisterBegin("register_every_n_samples_event", "every_n_samples", TRUE)
  /\ UNCHANGED <<taskFrame, pauseType, drvCallback>>
  /\ UNCHANGED regFrame
  /\ UNCHANGED patternVars

\* Task.register_every_n_samples_event: from a driver call on
RegisterEveryNSamplesEventCall ==
  /\ RegisterCall("register_every_n_samples_event", "every_n_samples",
                  "DAQmxRegisterEveryNSamplesEvent")
  /\ UNCHANGED <<taskFrame, pauseType>>
  /\ UNCHANGED regFrame
  /\ UNCHANGED patternVars

\* Task.register_done_event(func, ...): up to its first driver call
RegisterDoneEvent ==
  /\ CanRegister
  /\ RegisterBegin("register_done_event", "done", FALSE)
  /\ UNCHANGED <<taskFrame, pauseType, drvCallback>>
  /\ UNCHANGED regFrame
  /\ UNCHANGED patternVars

\* Task.register_done_event: from a driver call on
RegisterDoneEventCall ==
  /\ RegisterCall("register_done_event", "done", "DAQmxRegisterDoneEvent")
  /\ UNCHANGED <<taskFrame, pauseType>>
  /\ UNCHANGED regFrame
  /\ UNCHANGED patternVars

----------------------------------------------------------------------------
(* Task.configure_timing_* and Task.set_arm_start_trigger *)

MaxTimingOps == 2
MaxTimingSamples == 2

\* a configure_timing_* or set_arm_start_trigger call can be made
CanConfigure == module = "loaded" /\ phase = "live" /\ nOps < MaxTimingOps

sample_mode_map == {"finite", "continuous", "hwtimed"}
active_edge_map == {"rising", "falling"}
arm_start_trigger_types == {"digital_edge", "disable", "None"}

\* the samples_per_channel arguments of configure_timing_*
TimingSamples == 1..MaxTimingSamples

\* the timing the driver holds after a Cfg...Timing call that returned code
TimingAfter(held, code, mode, spc) ==
  IF code >= 0 THEN [mode |-> mode, spc |-> PyInt(spc)] ELSE held

timingFrame == <<cls, one_channel_for_all_lines, register_event_cache,
                 drvCallback, reg, rd>>

\* the body the four configure_timing_* methods share; optionsOk: the
\* options looked up before sample_mode were allowed
ConfigureTiming(op, fn, optionsOk, maxUnicode) ==
  \E mode \in sample_mode_map \cup {Bogus}, spc \in TimingSamples :
    IF ~optionsOk \/ ~GetMapValueOk(sample_mode_map, mode)
    THEN /\ spc = 1
         /\ RaiseEarly(op, Bogus, "ValueError")
         /\ UNCHANGED <<sample_mode, samples_per_channel, drvTiming>>
    ELSE \E code \in Codes, r \in ErrStrCodes, u \in 0..maxUnicode :
           LET c == CALL(fn, code, r, 0, u)
           IN /\ samples_per_channel' = PyInt(spc)
              /\ sample_mode' = mode
              /\ drvTiming' = TimingAfter(drvTiming, code, mode, spc)
              /\ Finish(op, mode, <<c>>, 0, ReturnCallEqZero(c))

\* Task.configure_timing_change_detection(rising_edge_channel,
\* falling_edge_channel, sample_mode, samples_per_channel)
ConfigureTimingChangeDetection ==
  /\ CanConfigure
  /\ ConfigureTiming("configure_timing_change_detection",
                     "DAQmxCfgChangeDetectionTiming", TRUE, 1)
  /\ UNCHANGED <<taskFrame, pauseType>>
  /\ UNCHANGED timingFrame
  /\ UNCHANGED patternVars

\* Task.configure_timing_handshaking(sample_mode, samples_per_channel)
ConfigureTimingHandshaking ==
  /\ CanConfigure
  /\ ConfigureTiming("configure_timing_handshaking",
                     "DAQmxCfgHandshakingTiming", TRUE, 0)
  /\ UNCHANGED <<taskFrame, pauseType>>
  /\ UNCHANGED timingFrame
  /\ UNCHANGED patternVars

\* Task.configure_timing_implicit(sample_mode, samples_per_channel)
ConfigureTimingImplicit ==
  /\ CanConfigure
  /\ ConfigureTiming("configure_timing_implicit", "DAQmxCfgImplicitTiming",
                     TRUE, 0)
  /\ UNCHANGED <<taskFrame, pauseType>>
  /\ UNCHANGED timingFrame
  /\ UNCHANGED patternVars

\* Task.configure_timing_sample_clock(source, rate, active_edge, sample_mode,
\* samples_per_channel)
ConfigureTimingSampleClock ==
  /\ CanConfigure
  /\ \E active_edge \in active_edge_map \cup {Bogus} :
       ConfigureTiming("configure_timing_sample_clock",
                       "DAQmxCfgSampClkTiming",
                       GetMapValueOk(active_edge_map, active_edge), 0)
  /\ UNCHANGED <<taskFrame, pauseType>>
  /\ UNCHANGED timingFrame
  /\ UNCHANGED patternVars

\* what `assert 0` does: raise AssertionError, or nothing under python -O,
\* where the next line reads the unassigned trigger_type_val
AssertZero == {"AssertionError", "UnboundLocalError"}

\* Task.set_arm_start_trigger(trigger_type)
SetArmStartTrigger ==
  /\ CanConfigure
  /\ \E trigger_type \in arm_start_trigger_types \cup {Bogus} :
       IF trigger_type \in arm_start_trigger_types
       THEN Forward("set_arm_start_trigger", trigger_type,
                    "DAQmxSetArmStartTrigType", TRUE, 0)
       ELSE \E exc \in AssertZero :
              RaiseEarly("set_arm_start_trigger", trigger_type, exc)
  /\ UNCHANGED <<taskFrame, pauseType>>
  /\ UNCHANGED <<sample_mode, samples_per_channel, drvTiming>>
  /\ UNCHANGED timingFrame
  /\ UNCHANGED patternVars

----------------------------------------------------------------------------
(* The binding as a state machine *)

NoOp == [op |-> "none", arg |-> "", calls |-> <<>>, kind |-> "return",
         val |-> PyNone, exc |-> "none"]

Init ==
  /\ module = "unloaded"
  /\ env \in [lib : BOOLEAN, hdr : BOOLEAN, inc : BOOLEAN]
  /\ files = {}
  /\ stdoutLines = 0
  /\ stderrLines = 0
  /\ phase = "none"
  /\ value = 0
  /\ pauseType = "None"
  /\ drvTasks = {}
  /\ clearCount = [h \in 0..MaxHandle |-> 0]
  /\ last = NoOp
  /\ nOps = 0
  /\ paths = <<>>
  /\ result = NoResult
  /\ cls = "Task"
  /\ sample_mode = "None"
  /\ samples_per_channel = Absent
  /\ one_channel_for_all_lines = Absent
  /\ register_event_cache = NoCallbacks
  /\ drvCallback = NoCallbacks
  /\ drvTiming = NoTiming
  /\ reg = NoReg
  /\ rd = NoRead

Next ==
  \/ LoadModule
  \/ TaskInit
  \/ TaskDel
  \/ IsDone
  \/ Start
  \/ Stop
  \/ AlterState
  \/ ConfigureTriggerAnalogEdgeStart
  \/ ConfigureTriggerDigitalEdgeStart
  \/ ConfigureTriggerDigitalPatternStart
  \/ ConfigureTriggerDisableStart
  \/ SetArmStartTriggerEdge
  \/ SetPauseTrigger
  \/ SetPauseTriggerWhen

Spec == Init /\ [][Next]_vars

InitPattern ==
  /\ Init
  /\ env = [lib |-> TRUE, hdr |-> TRUE, inc |-> TRUE]

NextPattern ==
  \/ AddPath
  \/ CallMakePattern

SpecPattern == InitPattern /\ [][NextPattern]_vars

\* reads of an input task, from its construction on
InitRead == \E c \in {"AnalogInputTask", "DigitalInputTask"} : LiveTask(c)

NextRead ==
  \/ AnalogRead
  \/ DigitalCreateChannel
  \/ DigitalRead

SpecRead == InitRead /\ [][NextRead]_vars

\* event registration on a task, from its construction on
InitEvents == \E c \in {"Task", "AnalogInputTask"} : LiveTask(c)

NextEvents ==
  \/ RegisterEveryNSamplesEvent
  \/ RegisterEveryNSamplesEventCall
  \/ RegisterDoneEvent
  \/ RegisterDoneEventCall

SpecEvents == InitEvents /\ [][NextEvents]_vars

\* sample timing and the methods that take a string option, on a task from
\* its construction on
InitTiming == LiveTask("Task")

NextTiming ==
  \/ ConfigureTimingChangeDetection
  \/ ConfigureTimingHandshaking
  \/ ConfigureTimingImplicit
  \/ ConfigureTimingSampleClock
  \/ SetArmStartTrigger

SpecTiming == InitTiming /\ [][NextTiming]_vars

----------------------------------------------------------------------------
(* Properties of the binding, checked under Spec *)

\* the calls the last operation made through CALL
LastCALLs == {i \in DOMAIN last.calls : last.calls[i].via = "CALL"}

\* C1: whenever the driver returns a negative code to a function invoked
\* through CALL, the call raises RuntimeError and returns nothing, whether or
\* not DAQmxGetErrorString succeeds and whether or not error_map has the code
C1_NegativeRaisesRuntimeError ==
  \A i \in LastCALLs :
    last.calls[i].code < 0 =>
      /\ last.calls[i].kind = "raise"
      /\ last.calls[i].exc = "RuntimeError"
      /\ last.kind = "raise"
      /\ last.exc = "RuntimeError"

\* C2: a positive code never raises: CHK writes one warning to stderr and
\* CALL returns the same code; a zero code writes nothing and returns 0
C2_WarningReportedNotRaised ==
  [][nOps' # nOps =>
       LET cs == last'.calls
           viaCALL == {i \in DOMAIN cs : cs[i].via = "CALL"}
       IN /\ \A i \in viaCALL :
               cs[i].code >= 0 => cs[i].kind = "return" /\ cs[i].val = cs[i].code
          /\ stderrLines' - stderrLines =
               Cardinality({i \in viaCALL : cs[i].code > 0})]_vars

C2_Witness ==
  /\ last.op = "configure_trigger_disable_start"
  /\ last.calls[1].code > 0
  /\ last.val = PyInt(last.calls[1].code)
  /\ stderrLines = 1

\* C3: start(), stop() and alter_state(valid state) return True exactly when
\* the driver returns 0, return False without raising for a positive code,
\* and never return True for a nonzero code
C3_TrueIffZero ==
  (last.op \in {"start", "stop", "alter_state"} /\ last.calls # <<>>) =>
    /\ (last.kind = "return" /\ last.val = PyTrue) <=> last.calls[1].code = 0
    /\ last.calls[1].code > 0 => last.kind = "return" /\ last.val = PyFalse

C3_Witness ==
  /\ last.op = "alter_state"
  /\ last.arg \in state_map
  /\ last.calls[1].code > 0
  /\ last.val = PyFalse

ForwardingConfigOps ==
  {"configure_trigger_analog_edge_start",
   "configure_trigger_digital_edge_start",
   "configure_trigger_digital_pattern_start",
   "configure_trigger_disable_start",
   "set_arm_start_trigger_edge",
   "set_pause_trigger",
   "set_pause_trigger_when"}

\* C4: every configuration operation that forwards to the driver returns
\* True when the driver returns 0, the digital-edge, digital-pattern and
\* disable start triggers, the arm start trigger edge and the pause trigger
\* condition as much as the analog edge start trigger and the pause trigger
C4_ConfigReturnsTrueOnZero ==
  (last.op \in ForwardingConfigOps /\ last.calls # <<>>
     /\ last.calls[1].code = 0) =>
    last.kind = "return" /\ last.val = PyTrue

\* C8: when DAQmxIsTaskDone returns 0, is_done() returns True if the driver
\* reported the task done (nonzero flag) and False if it reported it not done
C8_IsDoneReportsFlag ==
  (last.op = "is_done" /\ last.calls[1].code = 0) =>
    last.kind = "return" /\ last.val = PyBool(last.calls[1].out # 0)

ClearCalls(cs) == {i \in DOMAIN cs : cs[i].fn = "DAQmxClearTask"}

\* C9: destroying a Task whose handle is nonzero issues exactly one
\* DAQmxClearTask for that handle, also when the constructor failed after
\* DAQmxCreateTask; a Task whose handle is 0 issues none; no other operation
\* issues one; a nonzero code of DAQmxClearTask is printed, never raised
C9_ClearOnDestroy ==
  [][nOps' # nOps =>
       LET cs == last'.calls
       IN /\ (last'.op = "__del__" /\ value # 0) =>
               /\ Cardinality(ClearCalls(cs)) = 1
               /\ clearCount' = [clearCount EXCEPT ![value] = @ + 1]
          /\ (last'.op = "__del__" /\ value = 0) =>
               /\ ClearCalls(cs) = {}
               /\ clearCount' = clearCount
          /\ last'.op # "__del__" =>
               /\ ClearCalls(cs) = {}
               /\ clearCount' = clearCount
          /\ last'.op = "__del__" =>
               /\ last'.kind = "return"
               /\ stdoutLines' - stdoutLines =
                    Cardinality({i \in ClearCalls(cs) : cs[i].code # 0})]_vars

C9_Witness ==
  /\ last.op = "__del__"
  /\ last.arg = "failed"
  /\ ClearCalls(last.calls) # {}
  /\ last.calls[1].code # 0
  /\ last.kind = "return"
  /\ \E h \in Handles : clearCount[h] = 1

\* C10 as stated: no operation, loading the module included, creates or
\* modifies a file
C10_NoFileEver == files = {}

\* C10 amended: only loading the module writes a file, and only the generated
\* constants module, when that module could not be imported
C10_OnlyImportGenerates ==
  [][/\ files' # files =>
          /\ last'.op = "import"
          /\ module = "unloaded"
          /\ ~env.hdr
          /\ files' = files \cup {GenFile}
     /\ (module = "unloaded" /\ module' = "loaded" /\ ~env.hdr) =>
          files' = {GenFile}]_vars

C10_Witness ==
  /\ module = "loaded"
  /\ files = {GenFile}
  /\ last.op \in ForwardingConfigOps

----------------------------------------------------------------------------
(* Properties of make_pattern, checked under SpecPattern *)

PathSet == {paths[k] : k \in DOMAIN paths}

DevNumbers == 0..2
ChanPrefixes == <<ai, ao>>
AllNumbers == 0..10
PortNumbers == 0..1

\* 'lo:hi', or 'lo' alone, for a set of numbers
RangeStr(N) ==
  LET lo == CHOOSE n \in N : \A m \in N : n <= m
      hi == CHOOSE n \in N : \A m \in N : n >= m
  IN IF lo = hi THEN Str(lo) ELSE Str(lo) \o <<":">> \o Str(hi)

Contiguous(N) == \A n \in AllNumbers :
                   (\E a \in N : a <= n) /\ (\E b \in N : n <= b) => n \in N

\* the paths 'D/pN' of a run r = [d, k, lo, hi]
RunPaths(r) == {Chan(r.d, ChanPrefixes[r.k], n) : n \in r.lo..r.hi}

\* 'D/plo:hi'
RunPattern(r) ==
  DevStr \o Str(r.d) \o <<"/">> \o ChanPrefixes[r.k]
    \o Str(r.lo) \o <<":">> \o Str(r.hi)

\* the runs of C5, a device, a digit-free prefix and numbers lo..hi with
\* hi > lo, each with its paths and the pattern it should give
ConsecutiveRuns ==
  {[paths |-> RunPaths(r), pattern |-> RunPattern(r)] :
     r \in {x \in [d : DevNumbers, k : DOMAIN ChanPrefixes,
                   lo : AllNumbers, hi : AllNumbers] : x.hi > x.lo}}

\* C5: for paths 'D/pN' that share the device D and the digit-free prefix p
\* and whose numbers are exactly lo..hi with hi > lo, make_pattern returns
\* 'D/plo:hi'
C5_ConsecutiveRun ==
  result # NoResult =>
    \A c \in ConsecutiveRuns :
      PathSet = c.paths => result = MpReturn(c.pattern)

C5_Witness ==
  /\ PathSet = {Chan(1, ao, 9), Chan(1, ao, 10)}
  /\ result = MpReturn(DevStr \o <<"1", "/">> \o ao
                         \o <<"9", ":", "1", "0">>)

ChanFamily ==
  {Chan(d, ChanPrefixes[k], n) :
     d \in DevNumbers, k \in DOMAIN ChanPrefixes, n \in AllNumbers}

LineFamily(d) == {Line(d, pn, n) : pn \in PortNumbers, n \in AllNumbers}

\* the numbers listed for prefix p of device d
ChanNums(d, p) == {n \in AllNumbers : Chan(d, p, n) \in PathSet}

\* every path is a channel 'Dev<d>/<p><n>' and the numbers of each prefix
\* of each device are a run
ChannelLists ==
  /\ paths # <<>>
  /\ PathSet \subseteq ChanFamily
  /\ \A d \in DevNumbers, k \in DOMAIN ChanPrefixes :
       Contiguous(ChanNums(d, ChanPrefixes[k]))

\* the entry of device d: its prefixes in sorted order, comma-joined, in
\* braces exactly when there is a comma
ChanDevEntry(d) ==
  LET Has(p) == ChanNums(d, p) # {}
      ps == SelectSeq(ChanPrefixes, Has)
      sub == Join([k \in 1..Len(ps) |-> ps[k] \o RangeStr(ChanNums(d, ps[k]))],
                  <<",">>)
  IN DevStr \o Str(d) \o <<"/">>
       \o (IF Contains(sub, ",") THEN <<"{">> \o sub \o <<"}">> ELSE sub)

\* C6: each device is emitted once, the devices comma-joined in sorted
\* order; the sub-patterns of a device are comma-joined in sorted prefix
\* order and wrapped as 'D/{...}' exactly when they contain a comma
C6_DevicesAndBraces ==
  (result # NoResult /\ ChannelLists) =>
    LET HasDev(d) == \E k \in DOMAIN ChanPrefixes :
                       ChanNums(d, ChanPrefixes[k]) # {}
        ds == SelectSeq(<<0, 1, 2>>, HasDev)
    IN result = MpReturn(Join([k \in 1..Len(ds) |-> ChanDevEntry(ds[k])],
                              <<",">>))

C6_Witness ==
  /\ PathSet = {Chan(0, ao, 0), Chan(1, ai, 1), Chan(1, ao, 1)}
  /\ result.kind = "return"
  /\ Contains(result.val, "{")
  /\ Contains(result.val, ",")

\* the lines listed for port pn of device d
LineNums(d, pn) == {n \in AllNumbers : Line(d, pn, n) \in PathSet}

\* every path is a line 'Dev<d>/port<pn>/line<ln>' of one device and the
\* lines of each port are a run
LineLists(d) ==
  /\ paths # <<>>
  /\ PathSet \subseteq LineFamily(d)
  /\ \A pn \in PortNumbers : Contiguous(LineNums(d, pn))

\* the lines of device d compressed port by port
LineDevEntry(d) ==
  LET Has(pn) == LineNums(d, pn) # {}
      pns == SelectSeq(<<0, 1>>, Has)
      sub == Join([k \in 1..Len(pns) |->
                     port \o Str(pns[k]) \o <<"/">> \o line
                       \o RangeStr(LineNums(d, pns[k]))], <<",">>)
  IN DevStr \o Str(d) \o <<"/">>
       \o (IF Len(pns) > 1 THEN <<"{">> \o sub \o <<"}">> ELSE sub)

\* the device of a path: what stands before its first '/'
DeviceOf(q) == SubSeq(q, 1, (CHOOSE j \in 1..Len(q) :
                               q[j] = "/" /\ \A m \in 1..(j - 1) : q[m] # "/")
                            - 1)

\* q stands in s between commas or the ends of s
IsEntry(q, s) ==
  \E a \in 1..Len(s) :
    /\ a + Len(q) - 1 <= Len(s)
    /\ SubSeq(s, a, a + Len(q) - 1) = q
    /\ a = 1 \/ s[a - 1] = ","
    /\ a + Len(q) - 1 = Len(s) \/ s[a + Len(q)] = ","

\* C7: a list of one path is returned unchanged, without range notation, as
\* is the only path of a device among the paths of other devices; paths with
\* two '/' are compressed level by level: the lines of one port as
\* 'D/portP/lineA:B', the lines of several ports as
\* 'D/{portP/line...,portQ/line...}'
C7_LoneAndNested ==
  /\ \A q \in PathPool :
       (result # NoResult /\ PathSet = {q}) => result = MpReturn(q)
  /\ (result.kind = "return" /\ \A q \in PathSet : Contains(q, "/")) =>
       \A q \in PathSet :
         (\A o \in PathSet \ {q} : DeviceOf(o) # DeviceOf(q)) =>
           IsEntry(q, result.val)
  /\ \A d \in DevNumbers :
       (result # NoResult /\ LineLists(d)) =>
         result = MpReturn(LineDevEntry(d))

C7_Witness ==
  /\ PathSet = {Line(2, 0, 0), Line(2, 0, 1), Line(2, 1, 0)}
  /\ result = MpReturn(DevStr \o <<"2", "/", "{">> \o port
                         \o <<"0", "/">> \o line \o <<"0", ":", "1", ",">>
                         \o port \o <<"1", "/">> \o line \o <<"0", "}">>)

----------------------------------------------------------------------------
(* Reads *)

ReadOps == {"AnalogInputTask.read", "DigitalInputTask.read"}

\* the number of samples a read asked the driver about, when its first
\* driver call was get_samples_per_channel_available
AskedAvailable ==
  /\ last.calls # <<>>
  /\ last.calls[1].fn = "DAQmxGetReadAvailSampPerChan"

\* C11: in AnalogInputTask.read and in DigitalInputTask.read alike,
\* samples_per_channel = -1 is replaced, as None is, by the number of samples
\* per channel available, before the receive buffer is allocated
C11_MinusOneReadsAllAvailable ==
  (/\ last.op \in ReadOps
   /\ rd.arg \in {PyNone, PyInt(0 - 1)}
   /\ rd.fill_mode \in fill_mode_map) =>
    /\ AskedAvailable
    /\ rd.allocated => rd.spc = last.calls[1].out

\* C12: AnalogInputTask.read returns exactly samples_read samples per channel
\* along the sample axis, also when the driver read fewer than requested
C12_AnalogReturnsSamplesRead ==
  (last.op = "AnalogInputTask.read" /\ last.kind = "return") =>
    /\ rd.rows = rd.got
    /\ last.val.v = rd.got

\* the numbers of lines the get_number_of_lines calls of the last operation
\* reported
LinesReported ==
  {last.calls[i].out :
     i \in {j \in DOMAIN last.calls :
              last.calls[j].fn = "DAQmxGetDINumLines"}}

\* C18: a read that reaches the driver passes a buffer size that never
\* exceeds what it allocated: samples_per_channel * number_of_channels
\* elements for an analog read, samples_per_channel * number_of_channels * c
\* bytes for a digital read, c = 1 per line and c = the largest number of
\* lines of a channel, one of 1, 2, 4, 8, when grouped for all lines
C18_BufferSizeWithinCapacity ==
  (last.op \in ReadOps /\ rd.reached) =>
    /\ rd.passed <= rd.capacity
    /\ last.op = "AnalogInputTask.read" => rd.passed = rd.spc * rd.nchan
    /\ last.op = "DigitalInputTask.read" =>
         /\ rd.passed = rd.spc * rd.nchan * rd.c
         /\ one_channel_for_all_lines = PyFalse => rd.c = 1
         /\ one_channel_for_all_lines = PyTrue =>
              /\ rd.c = MaxOf(LinesReported)
              /\ rd.c \in {1, 2, 4, 8}

C18_Witness ==
  /\ last.op = "DigitalInputTask.read"
  /\ one_channel_for_all_lines = PyTrue
  /\ rd.reached
  /\ rd.nchan = 2
  /\ LinesReported = {1, 2}
  /\ rd.c = 2
  /\ rd.spc = 1
  /\ rd.passed = 4
  /\ rd.capacity = 4

----------------------------------------------------------------------------
(* Event registration *)

\* C13: at every instant at which the driver holds a callback pointer for an
\* event, the Task's cache for that event still references that callback:
\* the cache is not cleared or overwritten before the driver has dropped the
\* old pointer
C13_CallbackAliveWhileRegistered ==
  \A e \in Events :
    drvCallback[e] # 0 => register_event_cache[e] = drvCallback[e]

\* C14: between register_*_event calls, whatever codes the driver returned,
\* the cache of an event is not None exactly when the driver holds a
\* callback for it; a call with func = None passes NULL and leaves the cache
\* None
C14_CacheMirrorsDriver ==
  reg.at \in {"none", "done"} =>
    /\ \A e \in Events : register_event_cache[e] # 0 <=> drvCallback[e] # 0
    /\ (reg.at = "done" /\ reg.func = 0 /\ reg.calls # <<>>) =>
         /\ reg.calls[1].cb = 0
         /\ register_event_cache[reg.event] = 0

\* C15: registering a function while a callback is cached passes NULL to the
\* driver first and the new callback second; when the NULL registration
\* raises, the call raises and the new callback is never passed
C15_UnregisterBeforeRegister ==
  (reg.func # 0 /\ reg.had # 0) =>
    /\ \A i \in DOMAIN reg.calls : reg.calls[i].cb # 0 => i = 2
    /\ Len(reg.calls) >= 2 =>
         /\ reg.calls[1].cb = 0
         /\ reg.calls[1].kind = "return"
    /\ reg.at = "done" =>
         /\ reg.calls # <<>>
         /\ reg.calls[1].cb = 0
         /\ reg.calls[1].kind = "raise" =>
              /\ Len(reg.calls) = 1
              /\ last.kind = "raise"
         /\ reg.calls[1].kind = "return" =>
              /\ Len(reg.calls) = 2
              /\ reg.calls[2].cb = reg.c_func
              /\ reg.c_func # reg.had

C15_Witness ==
  /\ reg.at = "done"
  /\ reg.event = "every_n_samples"
  /\ reg.func # 0
  /\ reg.had # 0
  /\ Len(reg.calls) = 2
  /\ reg.calls[1].cb = 0
  /\ reg.calls[2].cb = reg.c_func
  /\ last.val = PyTrue
  /\ drvCallback["every_n_samples"] = reg.c_func

----------------------------------------------------------------------------
(* String options and recorded timing *)

\* C16: a Task method called with a string option that is not allowed raises
\* ValueError, makes no driver call and leaves the recorded state
\* (sample_mode, samples_per_channel, _pause_trigger_type,
\* one_channel_for_all_lines, the callback caches) unchanged
C16_BadOptionRaisesValueError ==
  [][(nOps' = nOps + 1 /\ last'.arg = Bogus) =>
       /\ last'.kind = "raise"
       /\ last'.exc = "ValueError"
       /\ last'.calls = <<>>
       /\ UNCHANGED <<sample_mode, samples_per_channel, pauseType,
                      one_channel_for_all_lines, register_event_cache>>]_vars

\* C17: Task.sample_mode and Task.samples_per_channel always equal the
\* arguments of the most recent configure_timing_* call the driver accepted
\* (None before any); a call the driver rejects leaves both unchanged
C17_RecordedTimingIsDriverTiming ==
  /\ sample_mode = drvTiming.mode
  /\ samples_per_channel = drvTiming.spc

----------------------------------------------------------------------------
(* make_pattern: numbers that are not a run *)

\* the path 'Dev<d>/<p>', whose suffix under the prefix p is empty
BarePrefix(d, p) == DevStr \o Str(d) \o <<"/">> \o p

\* some prefix of some device collected numeric suffixes only, and they are
\* not the full range from the smallest to the largest
HasGap ==
  \E d \in DevNumbers, k \in DOMAIN ChanPrefixes :
    /\ ~Contiguous(ChanNums(d, ChanPrefixes[k]))
    /\ BarePrefix(d, ChanPrefixes[k]) \notin PathSet

\* C19: when the numeric suffixes collected under one prefix are not the
\* full integer range from their minimum to their maximum (ao1 and ao3),
\* make_pattern raises AssertionError and returns no pattern
C19_GapRaisesAssertionError ==
  (result # NoResult /\ HasGap) => result = MpRaise("AssertionError")

C19_Witness ==
  /\ paths = <<Chan(1, ao, 1), Chan(1, ao, 3)>>
  /\ result = MpRaise("AssertionError")

====
